---------------------------- MODULE Spec2Model ----------------------------
(***************************************************************************)
(* A model of the particle sampler of creature-creator-prototype: the slot *)
(* allocators, the kd-tree spatial index, the initial sampler and the      *)
(* relaxation engine (SamplingSystem).                                     *)
(*                                                                         *)
(* Numbers.  The program computes in f32.  The model keeps positions and   *)
(* radii as integers; a mean (the split value of a kd node) is kept as the *)
(* exact fraction total/count and compared by cross multiplication; a      *)
(* distance is compared through its square.  What an f32 rounding would    *)
(* add is not modelled.                                                    *)
(***************************************************************************)
EXTENDS Integers, Sequences, FiniteSets, TLC

(***************************************************************************)
(* State.  Six parts of the program are modelled, each with a             *)
(* specification of its own; a specification leaves the variables of the   *)
(* other parts at their parked values.                                     *)
(***************************************************************************)
VARIABLES
    \* -- an allocator under test (SpecAlloc)
    kind,             \* which allocator: "pool", "stack", "compacting"
    alloc,            \* the allocator value
    held,             \* indices handed out by insert and not yet given back
    freed,            \* indices given back and not handed out again
    last,             \* the last call: its name, result and the state before it
    apanic,           \* panic message of the allocator under test, "" if none
    overflow_checks,  \* build profile: arithmetic overflow panics (debug) or wraps
    \* -- a KdIndexer and the arena it refers to (SpecKd)
    kd_items,         \* the arena (the index owns no positions)
    kd_root,          \* KdIndexer.root
    kd_built,         \* reindex has run
    kd_result,        \* the last query: [origin, radius, items], or << >> if none
    kd_panic,         \* "" or how the program died
    kd_removed,       \* indices taken out by remove_item_index, in call order
    \* -- the initial sampler, one call of sample() (SpecSample)
    sm_samples,       \* samples: KdContainer [items, tree]
    sm_untreated,     \* untreated: Vec of positions, used as a stack
    sm_siblings,      \* how many siblings of the point being expanded are still to come
    sm_pc,            \* "seed", "loop", "done"
    sm_panic,         \* "" or the message sample() died with
    sm_pushed,        \* history: the points pushed to untreated, in order
    sm_popped,        \* history: the points popped from untreated, in order
    \* -- the relaxation engine, SamplingSystem (Spec)
    living_particles, \* Vec<usize>
    position_index,   \* KdIndexer (its root)
    index_allocator,  \* StackBufferAllocator
    particles_a,      \* front buffer
    particles_b,      \* back buffer
    t,                \* number of ITERATION_T_STEP added to t so far
    pc,               \* "idle", "loop", "swap", "panic"
    iteration,        \* sub-steps of the running update completed so far
    loop_j,           \* the loop's position j in living_particles (from 0), -1 when done
    panic,            \* "" or the message the engine died with
    step_start,       \* history: living_particles when the running sub-step began
    step_log,         \* history: what the inner loop did so far in this sub-step
    samplings,        \* history: how many times initial_sampling was called
    \* -- a scene-graph transform (SpecTransform)
    transform,        \* a NodeTransform or a graph::Transform
    \* -- ParticleStorage of src/src/particle_system.rs (SpecStorage)
    ps_index_allocator,   \* index_allocator: StackPoolAllocator
    ps_spatial_indexer,   \* spatial_indexer: KdIndexer (its root)
    ps_active_particles,  \* active_particles: Vec<usize>
    ps_pool_a,            \* pool_a
    ps_pool_b,            \* pool_b
    ps_active_pool,       \* _active_pool
    ps_particles_killed,  \* update_particles: particles_killed
    ps_count,             \* update_particles: count
    ps_j,                 \* update_particles: the loop's j
    ps_pc,                \* "idle", "loop"
    ps_panic              \* "" or the message the program died with

allocVars == <<kind, alloc, held, freed, last, apanic, overflow_checks>>
kdVars == <<kd_items, kd_root, kd_built, kd_result, kd_panic, kd_removed>>
smVars == <<sm_samples, sm_untreated, sm_siblings, sm_pc, sm_panic, sm_pushed,
            sm_popped>>
engVars == <<living_particles, position_index, index_allocator, particles_a,
             particles_b, t, pc, iteration, loop_j, panic, step_start, step_log,
             samplings>>
trVars == <<transform>>
psVars == <<ps_index_allocator, ps_spatial_indexer, ps_active_particles, ps_pool_a,
            ps_pool_b, ps_active_pool, ps_particles_killed, ps_count, ps_j, ps_pc,
            ps_panic>>
vars == <<allocVars, kdVars, smVars, engVars, trVars, psVars>>

AllocParked ==
    /\ kind = "none" /\ alloc = <<>> /\ held = <<>> /\ freed = {}
    /\ last = <<>> /\ apanic = "" /\ overflow_checks = FALSE

KdParked ==
    /\ kd_items = <<>> /\ kd_root = <<>> /\ kd_built = FALSE
    /\ kd_result = <<>> /\ kd_panic = "" /\ kd_removed = <<>>

SampleParked ==
    /\ sm_samples = <<>> /\ sm_untreated = <<>> /\ sm_siblings = 0
    /\ sm_pc = "none" /\ sm_panic = "" /\ sm_pushed = <<>> /\ sm_popped = <<>>

EngineParked ==
    /\ living_particles = <<>> /\ position_index = <<>> /\ index_allocator = <<>>
    /\ particles_a = <<>> /\ particles_b = <<>> /\ t = 0 /\ pc = "none"
    /\ iteration = 0 /\ loop_j = 0 /\ panic = ""
    /\ step_start = <<>> /\ step_log = <<>> /\ samplings = 0

TransformParked == transform = <<>>

StorageParked ==
    /\ ps_index_allocator = <<>> /\ ps_spatial_indexer = <<>>
    /\ ps_active_particles = <<>> /\ ps_pool_a = <<>> /\ ps_pool_b = <<>>
    /\ ps_active_pool = FALSE /\ ps_particles_killed = <<>> /\ ps_count = 0
    /\ ps_j = 0 /\ ps_pc = "none" /\ ps_panic = ""

(***************************************************************************)
(* Bounds of the model.                                                    *)
(***************************************************************************)
\* const SIZE / S of the allocators under test (SpecAlloc)
SIZE == 4
\* the simple StackBufferAllocator never stops issuing: the model lets its
\* buffer_head pass SIZE by at most this much
HeadSlack == 1

(***************************************************************************)
(* Sequence helpers (Vec operations of the standard library).              *)
(***************************************************************************)
Range(s) == {s[k] : k \in 1..Len(s)}

\* Vec::insert(idx, x), idx 0-based
VecInsert(s, idx, x) == SubSeq(s, 1, idx) \o <<x>> \o SubSeq(s, idx + 1, Len(s))

\* a remove that leaves the vector as it was
VecRemove_keep(s, idx) == s

\* a remove that takes the first element, whatever idx is
VecRemove_first(s, idx) == Tail(s)

\* Vec::remove(idx), idx 0-based
VecRemove(s, idx) == SubSeq(s, 1, idx) \o SubSeq(s, idx + 2, Len(s))

\* a pop that leaves the vector as it was
VecPopped_keep(s) == s

\* Vec::pop: the vector without its last element
VecPopped(s) == SubSeq(s, 1, Len(s) - 1)

NoDup(s) == \A a, b \in 1..Len(s) : a # b => s[a] # s[b]

(***************************************************************************)
(* StackPoolAllocator (src/src/pool.rs).                                   *)
(* An allocator value is a record; an operation yields the new value, the  *)
(* index returned and the panic message ("" when it returns normally).     *)
(***************************************************************************)
StackPoolAllocator_new == [returned_indices |-> <<>>, pool_end |-> 0]

StackPoolAllocator_insert(a) ==
    IF Len(a.returned_indices) > 0
    THEN [a |-> [a EXCEPT !.returned_indices = VecPopped(@)],
          ret |-> a.returned_indices[Len(a.returned_indices)],
          panic |-> ""]
    ELSE IF a.pool_end = SIZE
         THEN [a |-> a, ret |-> 0, panic |-> "Pool exceeded!"]
         ELSE [a |-> [a EXCEPT !.pool_end = @ + 1],
               ret |-> a.pool_end,
               panic |-> ""]

StackPoolAllocator_remove(a, i) ==
    [a |-> [a EXCEPT !.returned_indices = Append(@, i)], panic |-> ""]

(***************************************************************************)
(* StackBufferAllocator, the simple one (src/src/buffer_allocator.rs).     *)
(***************************************************************************)
StackBufferAllocator_new == [buffer_head |-> 0, returned_indices |-> <<>>]

\* mutant: a given-back index is handed out without being popped
StackBufferAllocator_insert_nopop(a) ==
    IF Len(a.returned_indices) > 0
    THEN [a |-> a,
          ret |-> a.returned_indices[Len(a.returned_indices)],
          panic |-> ""]
    ELSE [a |-> [a EXCEPT !.buffer_head = @ + 1],
          ret |-> a.buffer_head,
          panic |-> ""]

StackBufferAllocator_insert(a) ==
    IF Len(a.returned_indices) > 0
    THEN [a |-> [a EXCEPT !.returned_indices = VecPopped(@)],
          ret |-> a.returned_indices[Len(a.returned_indices)],
          panic |-> ""]
    ELSE [a |-> [a EXCEPT !.buffer_head = @ + 1],
          ret |-> a.buffer_head,
          panic |-> ""]

\* a remove that forgets the index
StackBufferAllocator_remove_nopush(a, index) ==
    [a |-> a, panic |-> ""]

StackBufferAllocator_remove(a, index) ==
    [a |-> [a EXCEPT !.returned_indices = Append(@, index)], panic |-> ""]

(***************************************************************************)
(* StackBufferAllocator, the compacting one                                *)
(* (src/creature-creator-metal-renderer/src/surfaces/sampling/             *)
(* buffer_allocator.rs).  buffer_head is a usize: head - 1 at head = 0     *)
(* panics in a build with overflow checks and wraps to usize::MAX in one   *)
(* without; the build decides, so overflow_checks is part of the state.    *)
(***************************************************************************)
\* usize subtraction a - 1: [v |-> value, panic |-> message].  The wrapped
\* value usize::MAX is beyond TLC's integers; it is only ever compared with
\* an index or a position of a Vec, all far below it, so -1, which equals
\* none of them either, stands for it.
usize_dec(a) ==
    IF a > 0 THEN [v |-> a - 1, panic |-> ""]
    ELSE IF overflow_checks
         THEN [v |-> 0, panic |-> "attempt to subtract with overflow"]
         ELSE [v |-> -1, panic |-> ""]

\* slice::partition_point(|&x| x > index) on a slice partitioned by the
\* predicate: the length of the prefix that satisfies it
RECURSIVE partition_point(_, _)
partition_point(s, index) ==
    IF Len(s) = 0 \/ ~(Head(s) > index) THEN 0
    ELSE 1 + partition_point(Tail(s), index)

\* mutant: the loop lowers the head at every returned index at or below
\* buffer_head - 1
RECURSIVE reduce_head_loop_below(_, _, _, _)
reduce_head_loop_below(ri, i, head, pp) ==
    IF i = 0 THEN [head |-> head, pp |-> pp, panic |-> ""]
    ELSE LET d == usize_dec(head) IN
         IF d.panic # "" THEN [head |-> head, pp |-> pp, panic |-> d.panic]
         ELSE IF ri[i] <= d.v
              THEN reduce_head_loop_below(ri, i - 1, head - 1, i)
              ELSE reduce_head_loop_below(ri, i - 1, head, pp)

\* the loop of reduce_head: i runs from len-1 down to 0 (here 1-based, i = 0
\* ends it); pp is the partition_point found so far, 0 for None
RECURSIVE reduce_head_loop(_, _, _, _)
reduce_head_loop(ri, i, head, pp) ==
    IF i = 0 THEN [head |-> head, pp |-> pp, panic |-> ""]
    ELSE LET d == usize_dec(head) IN
         IF d.panic # "" THEN [head |-> head, pp |-> pp, panic |-> d.panic]
         ELSE IF ri[i] = d.v
              THEN reduce_head_loop(ri, i - 1, head - 1, i)
              ELSE reduce_head_loop(ri, i - 1, head, pp)

reduce_head(a) ==
    LET ri == a.returned_indices
        r  == reduce_head_loop(ri, Len(ri), a.buffer_head, 0)
    IN  IF r.panic # "" THEN [a |-> [a EXCEPT !.buffer_head = r.head], panic |-> r.panic]
        ELSE IF r.pp = 0 THEN [a |-> a, panic |-> ""]
        ELSE IF r.head # ri[r.pp]
             THEN [a |-> [a EXCEPT !.buffer_head = r.head],
                   panic |-> "assertion failed: left == right"]
             ELSE [a |-> [buffer_head |-> r.head,
                          returned_indices |-> SubSeq(ri, r.pp + 1, Len(ri))],
                   panic |-> ""]

compact(a) == reduce_head(a)

Compacting_new == [buffer_head |-> 0, returned_indices |-> <<>>]

Compacting_insert(a) ==
    IF Len(a.returned_indices) > 0
    THEN [a |-> [a EXCEPT !.returned_indices = VecPopped(@)],
          ret |-> a.returned_indices[Len(a.returned_indices)],
          panic |-> ""]
    ELSE [a |-> [a EXCEPT !.buffer_head = @ + 1],
          ret |-> a.buffer_head,
          panic |-> IF a.buffer_head + 1 < SIZE THEN ""
                    ELSE "assertion failed: self.buffer_head < SIZE"]

Compacting_remove(a, index) ==
    LET idx == partition_point(a.returned_indices, index)
        d   == usize_dec(a.buffer_head)
    IN  IF d.panic # "" THEN [a |-> a, panic |-> d.panic]
        ELSE IF idx = d.v
             THEN compact([a EXCEPT !.buffer_head = @ - 1])
             ELSE compact([a EXCEPT !.returned_indices = VecInsert(@, idx, index)])

(***************************************************************************)
(* SpecAlloc: any sequence of insert and remove calls on one allocator,    *)
(* remove only on an index that is handed out (no double free).            *)
(***************************************************************************)
Kinds == {"pool", "stack", "compacting"}

NewAllocator(k) ==
    CASE k = "pool" -> StackPoolAllocator_new
      [] k = "stack" -> StackBufferAllocator_new
      [] OTHER -> Compacting_new

InsertOf(k, a) ==
    CASE k = "pool" -> StackPoolAllocator_insert(a)
      [] k = "stack" -> StackBufferAllocator_insert(a)
      [] OTHER -> Compacting_insert(a)

RemoveOf(k, a, i) ==
    CASE k = "pool" -> StackPoolAllocator_remove(a, i)
      [] k = "stack" -> StackBufferAllocator_remove(a, i)
      [] OTHER -> Compacting_remove(a, i)

\* the high-water mark of an allocator value
HighWater(a) == IF kind = "pool" THEN a.pool_end ELSE a.buffer_head

\* held without one occurrence of i
RECURSIVE WithoutOne(_, _)
WithoutOne(s, i) ==
    IF Len(s) = 0 THEN <<>>
    ELSE IF Head(s) = i THEN Tail(s)
    ELSE <<Head(s)>> \o WithoutOne(Tail(s), i)

NoCall == [op |-> "new", ret |-> 0, heldBefore |-> <<>>, freedBefore |-> {},
           headBefore |-> 0, allocBefore |-> <<>>]

AllocInit ==
    /\ kind \in Kinds
    /\ overflow_checks \in BOOLEAN
    /\ alloc = NewAllocator(kind)
    /\ held = <<>>
    /\ freed = {}
    /\ last = NoCall
    /\ apanic = ""
    /\ KdParked /\ SampleParked /\ EngineParked /\ TransformParked /\ StorageParked

AllocInsert ==
    /\ apanic = ""
    /\ HighWater(alloc) < SIZE + HeadSlack
    /\ LET r == InsertOf(kind, alloc) IN
        /\ alloc' = r.a
        /\ apanic' = r.panic
        /\ last' = [op |-> "insert", ret |-> r.ret, heldBefore |-> held,
                    freedBefore |-> freed, headBefore |-> HighWater(alloc),
                    allocBefore |-> alloc]
        /\ held' = IF r.panic = "" THEN Append(held, r.ret) ELSE held
        /\ freed' = IF r.panic = "" THEN freed \ {r.ret} ELSE freed
    /\ UNCHANGED <<kind, overflow_checks, kdVars, smVars, engVars, trVars, psVars>>

AllocRemove ==
    /\ apanic = ""
    /\ \E i \in Range(held) :
        LET r == RemoveOf(kind, alloc, i) IN
        /\ alloc' = r.a
        /\ apanic' = r.panic
        /\ last' = [op |-> "remove", ret |-> i, heldBefore |-> held,
                    freedBefore |-> freed, headBefore |-> HighWater(alloc),
                    allocBefore |-> alloc]
        /\ held' = WithoutOne(held, i)
        /\ freed' = freed \cup {i}
    /\ UNCHANGED <<kind, overflow_checks, kdVars, smVars, engVars, trVars, psVars>>

AllocNext == AllocInsert \/ AllocRemove

SpecAlloc == AllocInit /\ [][AllocNext]_vars

(***************************************************************************)
(* Claims about the allocators (checked under SpecAlloc).                  *)
(***************************************************************************)

\* returned_indices of the compacting allocator stays sorted, largest first,
\* which is what partition_point relies on
Compacting_sorted ==
    kind = "compacting" =>
        \A a, b \in 1..Len(alloc.returned_indices) :
            a < b => alloc.returned_indices[a] >= alloc.returned_indices[b]

\* C3: compacting StackBufferAllocator, no double free: the indices handed
\* out are pairwise distinct (insert never returns an index still held).
C3_claim_distinct ==
    kind = "compacting" => NoDup(held)

\* C4: StackPoolAllocator and the simple StackBufferAllocator, no double
\* free: insert never returns an index that is handed out, and it issues a
\* new index (at or above the high-water mark) only when every index given
\* back has been handed out again.
C4_reuse_before_fresh ==
    (kind \in {"pool", "stack"} /\ last.op = "insert" /\ apanic = "") =>
        /\ last.ret \notin Range(last.heldBefore)
        /\ last.ret >= last.headBefore => last.freedBefore = {}
        /\ last.ret < last.headBefore => last.ret \in last.freedBefore

\* C4 witness: an insert that handed a given-back index out again while
\* other indices were still held
C4_witness ==
    /\ kind = "stack"
    /\ last.op = "insert"
    /\ last.ret \in last.freedBefore
    /\ Len(last.heldBefore) > 0
    /\ freed # {}

\* C5: with capacity SIZE, insert returns only indices in [0, SIZE),
\* succeeds whenever fewer than SIZE indices are handed out and fails when
\* all SIZE are handed out; for each of the three allocators.
C5_claim_capacity ==
    last.op = "insert" =>
        /\ apanic = "" => last.ret \in 0..(SIZE - 1)
        /\ Len(last.heldBefore) < SIZE => apanic = ""
        /\ Len(last.heldBefore) = SIZE => apanic # ""

\* C6: compacting StackBufferAllocator, no double free: every index below
\* SIZE that no caller holds is either in returned_indices or at or above
\* buffer_head, and never both.
C6_claim_partition ==
    (kind = "compacting" /\ apanic = "") =>
        \A i \in 0..(SIZE - 1) :
            i \notin Range(held) =>
                (i \in Range(alloc.returned_indices)) # (i >= alloc.buffer_head)

\* C29: compacting StackBufferAllocator, no double free: the assert_eq of
\* reduce_head never fails; when reduce_head has lowered buffer_head, the
\* returned index at the recorded partition point is the new buffer_head.
C29_reduce_head_assert_holds ==
    kind = "compacting" => apanic # "assertion failed: left == right"

\* C29 witness: the last call was a remove whose reduce_head found a
\* partition point, lowered buffer_head and went through its assert_eq
C29_witness ==
    /\ kind = "compacting" /\ apanic = ""
    /\ last.op = "remove"
    /\ LET before == last.allocBefore
           idx == partition_point(before.returned_indices, last.ret)
           ri == IF idx = before.buffer_head - 1 THEN before.returned_indices
                 ELSE VecInsert(before.returned_indices, idx, last.ret)
           head == IF idx = before.buffer_head - 1 THEN before.buffer_head - 1
                   ELSE before.buffer_head
           r == reduce_head_loop(ri, Len(ri), head, 0)
       IN /\ r.pp # 0
          /\ alloc.buffer_head = r.head
          /\ alloc.buffer_head < head

(***************************************************************************)
(* The kd-tree spatial index (src/src/spatial_indexer/kd_indexer.rs).      *)
(* A tree is a record: Leaf(items) or Node(axis, midpoint, left, right).   *)
(* midpoint is the mean total / count, kept as the pair num / den.         *)
(* An arena is a sequence of positions <<x, y, z>>; item index j (from 0)  *)
(* is arena[j + 1].                                                        *)
(***************************************************************************)
\* KD_LEAF_SIZE of the source is 100; the model scales it down
KD_LEAF_SIZE == 2

SplitAxis_next(axis) ==
    CASE axis = "X" -> "Y"
      [] axis = "Y" -> "Z"
      [] OTHER -> "X"

SplitAxis_component(axis, v) ==
    CASE axis = "X" -> v[1]
      [] axis = "Y" -> v[2]
      [] OTHER -> v[3]

At(arena, j) == arena[j + 1]

Leaf(items) == [leaf |-> TRUE, items |-> items]

Node(axis, midpoint, left, right) ==
    [leaf |-> FALSE, axis |-> axis, midpoint |-> midpoint,
     left |-> left, right |-> right]

\* An f32 that is NaN.  Arithmetic with a NaN gives NaN and every ordered
\* comparison with a NaN (<, <=, >=, >) is false.
NaN == -1000000
IsNaN(x) == x = NaN
PointIsNaN(p) == IsNaN(p[1]) \/ IsNaN(p[2]) \/ IsNaN(p[3])
FAdd(a, b) == IF IsNaN(a) \/ IsNaN(b) THEN NaN ELSE a + b
FSub(a, b) == IF IsNaN(a) \/ IsNaN(b) THEN NaN ELSE a - b
FMul(a, b) == IF IsNaN(a) \/ IsNaN(b) THEN NaN ELSE a * b
FLt(a, b) == ~IsNaN(a) /\ ~IsNaN(b) /\ a < b
FGe(a, b) == ~IsNaN(a) /\ ~IsNaN(b) /\ a >= b

\* v < num/den and v >= num/den for den > 0
LessThanMid(v, m) == FLt(FMul(v, m.den), m.num)
GreaterEqMid(v, m) == FGe(FMul(v, m.den), m.num)

RECURSIVE SumComponent(_, _, _)
SumComponent(arena, items, axis) ==
    IF Len(items) = 0 THEN 0
    ELSE FAdd(SplitAxis_component(axis, At(arena, Head(items))),
              SumComponent(arena, Tail(items), axis))

RECURSIVE FilterSeq(_, _, _, _, _)
\* the items (in order) whose component is below the midpoint (below = TRUE)
\* or not below it (below = FALSE)
FilterSeq(arena, items, axis, m, below) ==
    IF Len(items) = 0 THEN <<>>
    ELSE LET rest == FilterSeq(arena, Tail(items), axis, m, below)
             isBelow == LessThanMid(SplitAxis_component(axis, At(arena, Head(items))), m)
         IN  IF isBelow = below THEN <<Head(items)>> \o rest ELSE rest

\* _split: (midpoint, left, right); an item below the mean goes right
_split(arena, items, axis) ==
    LET m == [num |-> SumComponent(arena, items, axis), den |-> Len(items)]
    IN  [midpoint |-> m,
         left |-> FilterSeq(arena, items, axis, m, FALSE),
         right |-> FilterSeq(arena, items, axis, m, TRUE)]

\* _construct recurses without end when a node's items are never separated
\* (KD_LEAF_SIZE or more items at one position): the program then dies of
\* stack exhaustion.  A split that separates nothing hands the same items to
\* the next axis, so after three such splits in a row the recursion repeats
\* itself; stuck counts them and the result is then StackOverflow.
StackOverflow == [overflow |-> TRUE]

Overflowed(tree) == "overflow" \in DOMAIN tree

RECURSIVE _construct_from(_, _, _, _)
_construct_from(arena, items, axis, stuck) ==
    IF Len(items) < KD_LEAF_SIZE THEN Leaf(items)
    ELSE IF stuck = 3 THEN StackOverflow
    ELSE LET sp == _split(arena, items, axis)
             l  == _construct_from(arena, sp.left, SplitAxis_next(axis),
                                   IF Len(sp.right) = 0 THEN stuck + 1 ELSE 0)
             r  == _construct_from(arena, sp.right, SplitAxis_next(axis), 0)
         IN  IF Overflowed(l) \/ Overflowed(r) THEN StackOverflow
             ELSE Node(axis, sp.midpoint, l, r)

_construct(arena, items, axis) == _construct_from(arena, items, axis, 0)

\* squared distance of two positions
Dist2(p, q) ==
    (p[1] - q[1]) * (p[1] - q[1]) + (p[2] - q[2]) * (p[2] - q[2])
        + (p[3] - q[3]) * (p[3] - q[3])

\* distance_to(origin) <= radius, radius >= 0
WithinRadius(p, origin, radius) ==
    /\ ~PointIsNaN(p) /\ ~PointIsNaN(origin) /\ ~IsNaN(radius)
    /\ Dist2(p, origin) <= radius * radius

RECURSIVE LeafWithin(_, _, _, _)
LeafWithin(arena, l, origin, radius) ==
    IF Len(l) = 0 THEN <<>>
    ELSE (IF WithinRadius(At(arena, Head(l)), origin, radius) THEN <<Head(l)>> ELSE <<>>)
             \o LeafWithin(arena, Tail(l), origin, radius)

\* the two tests of a node: component + radius >= midpoint (visit left) and
\* component - radius < midpoint (visit right)
\* mutant: the left child is visited only when strictly beyond the plane
VisitLeft_strict(n, origin, radius) ==
    FLt(n.midpoint.num,
        FMul(FAdd(SplitAxis_component(n.axis, origin), radius), n.midpoint.den))

VisitLeft(n, origin, radius) ==
    GreaterEqMid(FAdd(SplitAxis_component(n.axis, origin), radius), n.midpoint)

\* mutant: the right child is visited only when the origin itself is below
\* the plane
VisitRight_noradius(n, origin, radius) ==
    LessThanMid(SplitAxis_component(n.axis, origin), n.midpoint)

VisitRight(n, origin, radius) ==
    LessThanMid(FSub(SplitAxis_component(n.axis, origin), radius), n.midpoint)

RECURSIVE _get_indices_within(_, _, _, _)
_get_indices_within(arena, tree, origin, radius) ==
    IF tree.leaf THEN LeafWithin(arena, tree.items, origin, radius)
    ELSE (IF VisitLeft(tree, origin, radius)
          THEN _get_indices_within(arena, tree.left, origin, radius) ELSE <<>>)
         \o
         (IF VisitRight(tree, origin, radius)
          THEN _get_indices_within(arena, tree.right, origin, radius) ELSE <<>>)

KdIndexer_new == Leaf(<<>>)

\* (0..items.len()).collect()
AllIndices(arena) == [k \in 1..Len(arena) |-> k - 1]

\* every index a tree holds, leaf by leaf
RECURSIVE TreeItems(_)
TreeItems(tree) ==
    IF tree.leaf THEN tree.items
    ELSE TreeItems(tree.left) \o TreeItems(tree.right)

(***************************************************************************)
(* SpecKd: an arena of positions is filled, KdIndexer::reindex builds the  *)
(* tree over all of it, and get_indices_within is asked with any origin    *)
(* and radius.  The arena is filled in non-decreasing order of position:   *)
(* the order of the items changes the order inside a leaf only.            *)
(***************************************************************************)
\* largest x and y coordinate of a position, and largest query radius
KdMaxCoord == 1
\* most items in the arena
KdArenaLen == 3

KdPoints == {<<x, y, z>> : x \in 0..KdMaxCoord, y \in 0..KdMaxCoord, z \in {0, 1}}
KdRadii == 0..KdMaxCoord

PointLE(p, q) ==
    \/ p[1] < q[1]
    \/ p[1] = q[1] /\ p[2] < q[2]
    \/ p[1] = q[1] /\ p[2] = q[2] /\ p[3] <= q[3]

KdInit ==
    /\ kd_items = <<>>
    /\ kd_root = KdIndexer_new
    /\ kd_built = FALSE
    /\ kd_result = <<>>
    /\ kd_panic = ""
    /\ kd_removed = <<>>
    /\ AllocParked /\ SampleParked /\ EngineParked /\ TransformParked /\ StorageParked

\* the caller pushes a position to its arena
KdAddItem ==
    /\ ~kd_built
    /\ Len(kd_items) < KdArenaLen
    /\ \E p \in KdPoints :
        /\ Len(kd_items) > 0 => PointLE(kd_items[Len(kd_items)], p)
        /\ kd_items' = Append(kd_items, p)
    /\ UNCHANGED <<kd_root, kd_built, kd_result, kd_panic, kd_removed, allocVars, smVars, engVars, trVars, psVars>>

\* KdIndexer::reindex
reindex(arena, indices) == _construct(arena, indices, "X")

KdReindex ==
    /\ ~kd_built
    /\ kd_panic = ""
    /\ LET built == reindex(kd_items, AllIndices(kd_items)) IN
        IF Overflowed(built)
        THEN kd_panic' = "stack overflow" /\ UNCHANGED <<kd_root, kd_built>>
        ELSE kd_root' = built /\ kd_built' = TRUE /\ UNCHANGED kd_panic
    /\ UNCHANGED <<kd_items, kd_result, kd_removed, allocVars, smVars, engVars, trVars, psVars>>

\* KdIndexer::get_indices_within
get_indices_within(arena, root, origin, radius) ==
    _get_indices_within(arena, root, origin, radius)

KdQuery ==
    /\ kd_built
    /\ kd_result = <<>>
    /\ \E origin \in KdPoints, radius \in KdRadii :
        kd_result' = [origin |-> origin, radius |-> radius,
                      items |-> get_indices_within(kd_items, kd_root, origin, radius)]
    /\ UNCHANGED <<kd_items, kd_root, kd_built, kd_panic, kd_removed, allocVars, smVars, engVars, trVars, psVars>>

\* the caller drops the Vec a query returned; it may then query again
KdDropResult ==
    /\ kd_result # <<>>
    /\ kd_result' = <<>>
    /\ UNCHANGED <<kd_items, kd_root, kd_built, kd_panic, kd_removed, allocVars, smVars, engVars, trVars, psVars>>

KdNext == KdAddItem \/ KdReindex \/ KdQuery \/ KdDropResult

SpecKd == KdInit /\ [][KdNext]_vars

\* C7: for an index built by reindex over a duplicate-free index list and an
\* arena unchanged since, get_indices_within(arena, c, r) returns exactly
\* the indexed j with distance(arena[j], c) <= r, each exactly once.
C7_query_exact ==
    (kd_built /\ kd_result # <<>>) =>
        /\ NoDup(kd_result.items)
        /\ Range(kd_result.items) =
             {j \in 0..(Len(kd_items) - 1) :
                 Dist2(At(kd_items, j), kd_result.origin)
                     <= kd_result.radius * kd_result.radius}

\* C7 witness: the tree has split, the query left a child out (pruned it),
\* returned an item and left an item outside the radius out
C7_witness ==
    /\ kd_built /\ kd_result # <<>>
    /\ ~kd_root.leaf
    /\ ~kd_root.left.leaf
    /\ \/ ~VisitLeft(kd_root, kd_result.origin, kd_result.radius)
       \/ ~VisitRight(kd_root, kd_result.origin, kd_result.radius)
    /\ Len(kd_result.items) > 0
    /\ Len(kd_result.items) < Len(kd_items)

(***************************************************************************)
(* KdContainer: the index the initial sampler fills point by point         *)
(* (src/src/spatial_indexer/kd_indexer.rs).                                *)
(***************************************************************************)
RECURSIVE _insert_item_index(_, _, _, _)
_insert_item_index(arena, tree, parent_axis, index) ==
    IF tree.leaf
    THEN LET l == Append(tree.items, index) IN
         IF Len(l) >= KD_LEAF_SIZE
         THEN LET axis == SplitAxis_next(parent_axis)
                  sp == _split(arena, l, axis)
              IN  Node(axis, sp.midpoint, Leaf(sp.left), Leaf(sp.right))
         ELSE Leaf(l)
    ELSE IF LessThanMid(SplitAxis_component(tree.axis, At(arena, index)), tree.midpoint)
         THEN [tree EXCEPT !.right = _insert_item_index(arena, tree.right, tree.axis, index)]
         ELSE [tree EXCEPT !.left = _insert_item_index(arena, tree.left, tree.axis, index)]

RECURSIVE _any_indices_within(_, _, _, _)
_any_indices_within(arena, tree, origin, radius) ==
    IF tree.leaf
    THEN \E k \in 1..Len(tree.items) : WithinRadius(At(arena, tree.items[k]), origin, radius)
    ELSE \/ /\ VisitLeft(tree, origin, radius)
            /\ _any_indices_within(arena, tree.left, origin, radius)
         \/ /\ VisitRight(tree, origin, radius)
            /\ _any_indices_within(arena, tree.right, origin, radius)

KdContainer_new == [items |-> <<>>, tree |-> Leaf(<<>>)]

KdContainer_push(c, point) ==
    LET items == Append(c.items, point) IN
    [items |-> items,
     tree |-> _insert_item_index(items, c.tree, "X", Len(items) - 1)]

RECURSIVE KdContainer_append(_, _)
KdContainer_append(c, points) ==
    IF Len(points) = 0 THEN c
    ELSE KdContainer_append(KdContainer_push(c, Head(points)), Tail(points))

KdContainer_any_items_in_radius(c, point, radius) ==
    _any_indices_within(c.items, c.tree, point, radius)

(***************************************************************************)
(* SpecKdEdit: a KdIndexer that is never reindexed.  The caller pushes a   *)
(* position to its arena and calls insert_item_index with the new index    *)
(* (what KdContainer::push does with its own arena), or calls              *)
(* remove_item_index with an index the tree holds.  The arena keeps the    *)
(* position of a removed index.  any_indices_within and get_indices_within *)
(* borrow the index immutably: they are operators, asked in every state.   *)
(***************************************************************************)
\* what _remove_item_index leaves behind: the tree, and "" or the panic
RECURSIVE _remove_item_index(_, _, _)
_remove_item_index(arena, tree, index) ==
    IF tree.leaf
    THEN LET found == {k \in 1..Len(tree.items) : tree.items[k] = index} IN
         IF found = {}
         THEN \* l.remove(-1 as usize)
              [tree |-> tree, panic |-> "removal index should be < len"]
         ELSE LET index_index == (CHOOSE k \in found : \A m \in found : m <= k) - 1
                  l == VecRemove(tree.items, index_index)
              IN  [tree |-> Leaf(l),
                   panic |-> IF Len(l) = 0 THEN "handle empty leaf!" ELSE ""]
    ELSE IF LessThanMid(SplitAxis_component(tree.axis, At(arena, index)), tree.midpoint)
         THEN LET r == _remove_item_index(arena, tree.right, index) IN
              [tree |-> [tree EXCEPT !.right = r.tree], panic |-> r.panic]
         ELSE LET r == _remove_item_index(arena, tree.left, index) IN
              [tree |-> [tree EXCEPT !.left = r.tree], panic |-> r.panic]

\* KdIndexer::insert_item_index
insert_item_index(arena, root, index) == _insert_item_index(arena, root, "X", index)

\* KdIndexer::remove_item_index
remove_item_index(arena, root, index) == _remove_item_index(arena, root, index)

\* KdIndexer::any_indices_within
any_indices_within(arena, root, origin, radius) ==
    _any_indices_within(arena, root, origin, radius)

\* the indices inserted and not removed since
Indexed == (0..(Len(kd_items) - 1)) \ Range(kd_removed)

KdInsertItem ==
    /\ kd_panic = ""
    /\ Len(kd_items) < KdArenaLen
    /\ \E p \in KdPoints :
        LET arena == Append(kd_items, p) IN
        /\ kd_items' = arena
        /\ kd_root' = insert_item_index(arena, kd_root, Len(arena) - 1)
    /\ UNCHANGED <<kd_built, kd_result, kd_panic, kd_removed, allocVars, smVars, engVars, trVars, psVars>>

KdRemoveItem ==
    /\ kd_panic = ""
    /\ \E index \in Indexed :
        LET r == remove_item_index(kd_items, kd_root, index) IN
        /\ kd_removed' = Append(kd_removed, index)
        /\ kd_panic' = r.panic
        /\ kd_root' = r.tree
    /\ UNCHANGED <<kd_items, kd_built, kd_result, allocVars, smVars, engVars, trVars, psVars>>

KdEditNext == KdInsertItem \/ KdRemoveItem

SpecKdEdit == KdInit /\ [][KdEditNext]_vars

\* C21: in an index built by inserting one item after the other (leaves
\* split as they reach KD_LEAF_SIZE), any_indices_within(c, r) is true
\* exactly when some inserted item lies within r of c.
C21_any_within_exact ==
    kd_removed = <<>> =>
        \A origin \in KdPoints, radius \in KdRadii :
            any_indices_within(kd_items, kd_root, origin, radius)
                <=> \E j \in 0..(Len(kd_items) - 1) :
                        Dist2(At(kd_items, j), origin) <= radius * radius

\* C21 witness: a leaf has split and an item has then gone down the tree;
\* one query is answered true by an item of a child while the other child
\* is pruned, and another query is answered false
C21_witness ==
    /\ kd_removed = <<>>
    /\ ~kd_root.leaf
    /\ Len(kd_items) > KD_LEAF_SIZE
    /\ \E origin \in KdPoints, radius \in KdRadii :
        /\ any_indices_within(kd_items, kd_root, origin, radius)
        /\ ~VisitLeft(kd_root, origin, radius)
    /\ \E origin \in KdPoints, radius \in KdRadii :
        ~any_indices_within(kd_items, kd_root, origin, radius)

\* the indices a radius query returns
Returned(root, origin, radius) ==
    Range(get_indices_within(kd_items, root, origin, radius))

\* C22: remove_item_index on an index the tree holds succeeds; afterwards
\* no radius query returns that index and every query returns the other
\* indices it returned before.
C22_remove_succeeds ==
    [][kd_removed' # kd_removed =>
        LET index == kd_removed'[Len(kd_removed')] IN
        /\ kd_panic' = ""
        /\ \A origin \in KdPoints, radius \in KdRadii :
            Returned(kd_root', origin, radius)
                = Returned(kd_root, origin, radius) \ {index}]_vars

(***************************************************************************)
(* The initial sampler (src/src/surfaces/initial_sampling.rs) and seed     *)
(* (src/src/renderer/surfaces/mod.rs).                                     *)
(* Lengths are in tenths of the unit of repulsion_radius, so that          *)
(* repulsion_radius * 1.9 is the integer 19 * SmRho.  What the Newton      *)
(* steps of seed and refine_point compute depends on the surface, which is *)
(* the caller's: a refined sibling is any point of SmPoints, and the seed  *)
(* search lands on the surface at any iteration or at none.                *)
(***************************************************************************)
\* the 100 Newton iterations of seed
SEED_ITERATIONS == 100
\* sibling_points makes 6 siblings per point; the model scales it down
SIBLINGS == 2
\* repulsion_radius, in units
SmRho == 1
\* positions a refined point can have: a grid of step 10 up to 10 * SmMaxCoord
SmMaxCoord == 2

SmPoints == {<<10 * x, 10 * y, 0>> : x \in 0..SmMaxCoord, y \in 0..SmMaxCoord}

repulsion_radius == 10 * SmRho
\* repulsion_radius * 1.9
RejectRadius == 19 * SmRho

\* seed: on_at is the iteration (1..100) whose step lands on the surface, 0
\* if none does; nan_at the iteration whose gradient is NaN, 0 if none is
seed(on_at, nan_at) ==
    IF nan_at # 0 /\ (on_at = 0 \/ nan_at <= on_at) THEN "NANANANANANA"
    ELSE IF on_at = 0 THEN "uh oh!"
    ELSE ""

SeedOutcomes == {seed(on_at, nan_at) : on_at \in 0..SEED_ITERATIONS, nan_at \in 0..SEED_ITERATIONS}

\* sibling_points returns SIBLINGS refined points.  Which points they are
\* does not depend on the sampler's state, so the model draws each when the
\* loop reaches it; sm_siblings counts the ones still to come.
SampleInit ==
    /\ sm_samples = KdContainer_new
    /\ sm_untreated = <<>>
    /\ sm_siblings = 0
    /\ sm_pc = "seed"
    /\ sm_panic = ""
    /\ sm_pushed = <<>>
    /\ sm_popped = <<>>
    /\ AllocParked /\ KdParked /\ EngineParked /\ TransformParked /\ StorageParked

\* sample, line 15: the seed
SampleSeed ==
    /\ sm_pc = "seed"
    /\ \E outcome \in SeedOutcomes :
        IF outcome # ""
        THEN /\ sm_panic' = outcome
             /\ sm_pc' = "done"
             /\ UNCHANGED sm_siblings
        ELSE /\ sm_pc' = "initial"
             /\ sm_siblings' = SIBLINGS
             /\ UNCHANGED sm_panic
    /\ UNCHANGED <<sm_samples, sm_untreated, sm_pushed, sm_popped,
                   allocVars, kdVars, engVars, trVars, psVars>>

\* sample, lines 17-22: each sibling of the seed goes to samples and to
\* untreated, unexamined
SampleInitialSibling ==
    /\ sm_pc = "initial"
    /\ \E point \in SmPoints :
        /\ sm_samples' = KdContainer_push(sm_samples, point)
        /\ sm_untreated' = Append(sm_untreated, point)
        /\ sm_pushed' = Append(sm_pushed, point)
    /\ sm_siblings' = sm_siblings - 1
    /\ sm_pc' = IF sm_siblings = 1 THEN "loop" ELSE "initial"
    /\ UNCHANGED <<sm_panic, sm_popped, allocVars, kdVars, engVars, trVars, psVars>>

\* while let Some(next_seed) = untreated.pop(): the siblings of next_seed
SamplePop ==
    /\ sm_pc = "loop"
    /\ sm_siblings = 0
    /\ Len(sm_untreated) > 0
    /\ sm_untreated' = VecPopped(sm_untreated)
    /\ sm_popped' = Append(sm_popped, sm_untreated[Len(sm_untreated)])
    /\ sm_siblings' = SIBLINGS
    /\ UNCHANGED <<sm_samples, sm_pc, sm_panic, sm_pushed, allocVars, kdVars, engVars, trVars, psVars>>

\* one pass of the for loop over the siblings
SampleSibling ==
    /\ sm_pc = "loop"
    /\ sm_siblings > 0
    /\ \E point \in SmPoints :
        IF KdContainer_any_items_in_radius(sm_samples, point, RejectRadius)
        THEN UNCHANGED <<sm_samples, sm_untreated, sm_pushed>>
        ELSE /\ sm_samples' = KdContainer_push(sm_samples, point)
             /\ sm_untreated' = Append(sm_untreated, point)
             /\ sm_pushed' = Append(sm_pushed, point)
    /\ sm_siblings' = sm_siblings - 1
    /\ UNCHANGED <<sm_pc, sm_panic, sm_popped, allocVars, kdVars, engVars, trVars, psVars>>

\* untreated is empty: sample returns samples.items
SampleReturn ==
    /\ sm_pc = "loop"
    /\ sm_siblings = 0
    /\ Len(sm_untreated) = 0
    /\ sm_pc' = "done"
    /\ UNCHANGED <<sm_samples, sm_untreated, sm_siblings, sm_panic, sm_pushed,
                   sm_popped, allocVars, kdVars, engVars, trVars, psVars>>

SampleNext ==
    SampleSeed \/ SampleInitialSibling \/ SamplePop \/ SampleSibling \/ SampleReturn

SpecSample == SampleInit /\ [][SampleNext]_vars

\* C9: every two distinct points of the set sample() returns are more than
\* 1.9 * rho apart, the siblings of the seed among them.
C9_claim_spacing ==
    (sm_pc = "done" /\ sm_panic = "") =>
        \A a, b \in 1..Len(sm_samples.items) :
            a # b => Dist2(sm_samples.items[a], sm_samples.items[b])
                         > RejectRadius * RejectRadius

\* sample() runs to its end: a sequential program takes its next step
SpecSampleFair == SpecSample /\ WF_vars(SampleNext)

\* how often a point occurs in a sequence
Count(p, s) == Cardinality({k \in 1..Len(s) : s[k] = p})

\* C26: the expansion of the front ends, with untreated empty; every point
\* accepted into samples is pushed to untreated once, in the same order,
\* and popped (expanded) once; what sample() returns is the accepted
\* points.
C26_front_expansion_terminates ==
    /\ <>(sm_pc = "done")
    /\ [](sm_panic = "" =>
            /\ sm_pushed = sm_samples.items
            /\ \A p \in SmPoints :
                  Count(p, sm_pushed) = Count(p, sm_popped) + Count(p, sm_untreated)
            /\ sm_pc = "done" =>
                  /\ sm_untreated = <<>>
                  /\ \A p \in SmPoints : Count(p, sm_popped) = Count(p, sm_samples.items))

\* C26 witness: sample() has returned more points than the siblings of the
\* seed, every one of them expanded
C26_witness ==
    /\ sm_pc = "done" /\ sm_panic = ""
    /\ Len(sm_samples.items) > SIBLINGS
    /\ Len(sm_popped) = Len(sm_samples.items)

(***************************************************************************)
(* SamplingSystem (renderer/surfaces/sampling/live_sampling.rs).           *)
(*                                                                         *)
(* Lengths are integers in units of desired_radius / 10, t counts          *)
(* ITERATION_T_STEP units, and a velocity is kept as its magnitude (the    *)
(* only thing update() reads of it).  A particle's normal is a function of *)
(* its position for a fixed surface and is not stored.  The surface and    *)
(* the random source are inputs: what sample() returns, where a moved or   *)
(* split particle lands and the draw of should_die are chosen from small   *)
(* sets.                                                                   *)
(***************************************************************************)
\* [Particle; MAX_PARTICLE_COUNT]: the program's arenas hold 100000 slots
MAX_PARTICLE_COUNT == 2
\* number of update() calls the model follows
MaxUpdates == 2

UPDATE_ITERATIONS == 4
NEIGHBOUR_RADIUS == 3
EQUILIBRIUM_SPEED == 100
\* DEATH_COEFFICIENT and MAX_RADIUS_COEFFICIENT in tenths (0.7 and 1.2)
DEATH_COEFFICIENT == 7
MAX_RADIUS_COEFFICIENT == 12
\* the desired_radius argument of update(), in model units
desired_radius == 10

Particle(p, v, r) == [position |-> p, velocity |-> v, radius |-> r]

\* new_zeroed_box(): every field of every slot is zero
new_zeroed_box == [k \in 1..MAX_PARTICLE_COUNT |-> Particle(<<0, 0, 0>>, 0, 0)]

\* particles.as_slice() seen through Positioned::position
Positions(box) == [k \in 1..Len(box) |-> box[k].position]

\* where the surface can put a particle
EngPoints == {<<0, 0, 0>>, <<20, 0, 0>>}
\* the speeds a moved particle can have: at rest, or faster than
\* EQUILIBRIUM_SPEED * radius for every radius of the model
EngSpeeds == {0, 2000}
\* the radii particle_radius can produce: below the death radius, just above
\* desired_radius, above the fission radius
EngRadii == {5, 11, 13}

\* sample(surface, desired_radius * 2.0): the seed search fails, or a Vec of
\* at least the seed's siblings comes back
SeqsOfLen(S, n) == [1..n -> S]
SampleResults ==
    UNION {SeqsOfLen(EngPoints, n) : n \in SIBLINGS..(MAX_PARTICLE_COUNT + 1)}
\* the messages seed() can stop the program with
SeedPanics == SeedOutcomes \ {""}

\* SamplingSystem::new
EngineInit ==
    /\ living_particles = <<>>
    /\ position_index = KdIndexer_new
    /\ index_allocator = StackBufferAllocator_new
    /\ particles_a = new_zeroed_box
    /\ particles_b = new_zeroed_box
    /\ t = 0
    /\ pc = "idle" /\ iteration = 0 /\ loop_j = 0 /\ panic = ""
    /\ step_start = <<>> /\ step_log = <<>> /\ samplings = 0
    /\ AllocParked /\ KdParked /\ SampleParked /\ TransformParked /\ StorageParked

\* the body of `for p in positions` in initial_sampling, from the k-th point
RECURSIVE initial_sampling_loop(_, _, _)
initial_sampling_loop(positions, k, st) ==
    IF k > Len(positions) THEN st
    ELSE LET r == StackBufferAllocator_insert(st.index_allocator)
             i == r.ret
             p == positions[k]
         IN initial_sampling_loop(positions, k + 1,
                [index_allocator |-> r.a,
                 living_particles |-> Append(st.living_particles, i),
                 particles_a |-> [st.particles_a EXCEPT
                                    ![i + 1].position = p,
                                    ![i + 1].radius = desired_radius],
                 particles_b |-> [st.particles_b EXCEPT
                                    ![i + 1].position = p,
                                    ![i + 1].radius = desired_radius]])

\* SamplingSystem::initial_sampling.  The KdIndexer it builds and reindexes
\* is a local of the function, dropped on return: self.position_index is
\* not assigned.
initial_sampling(positions) ==
    IF Len(positions) > MAX_PARTICLE_COUNT
    THEN /\ panic' = "TOO DANG BIG!!"
         /\ UNCHANGED <<living_particles, index_allocator, particles_a, particles_b>>
    ELSE LET st == initial_sampling_loop(positions, 1,
                      [index_allocator |-> index_allocator,
                       living_particles |-> living_particles,
                       particles_a |-> particles_a,
                       particles_b |-> particles_b])
             local_index == reindex(Positions(st.particles_a), st.living_particles)
         IN /\ living_particles' = st.living_particles
            /\ index_allocator' = st.index_allocator
            /\ particles_a' = st.particles_a
            /\ particles_b' = st.particles_b
            /\ panic' = IF Overflowed(local_index) THEN "stack overflow" ELSE ""

\* a test that looks at the live list only
NeedsInitialSampling_any_t == living_particles = <<>>

\* if self.t == 0.0 && self.living_particles.is_empty()
NeedsInitialSampling == t = 0 /\ living_particles = <<>>

\* update(): the test for the initial sampling, up to the first sub-step
UpdateBegin ==
    /\ pc = "idle" /\ panic = ""
    /\ t < MaxUpdates
    /\ IF NeedsInitialSampling
       THEN /\ samplings' = samplings + 1
            /\ \/ \E msg \in SeedPanics :
                    /\ panic' = msg
                    /\ UNCHANGED <<living_particles, index_allocator,
                                   particles_a, particles_b>>
               \/ \E positions \in SampleResults : initial_sampling(positions)
       ELSE UNCHANGED <<living_particles, index_allocator, particles_a,
                        particles_b, panic, samplings>>
    /\ pc' = IF panic' = "" THEN "substep" ELSE "panic"
    /\ iteration' = 0
    /\ UNCHANGED <<position_index, t, loop_j, step_start, step_log,
                   allocVars, kdVars, smVars, trVars, psVars>>

\* for _ in 0..UPDATE_ITERATIONS: the head of one sub-step, and of
\* for j in (0..self.living_particles.len()).rev()
SubStepBegin ==
    /\ UNCHANGED samplings
    /\ pc = "substep" /\ panic = ""
    /\ iteration < UPDATE_ITERATIONS
    /\ loop_j' = Len(living_particles) - 1
    /\ pc' = "loop"
    /\ step_start' = living_particles
    /\ step_log' = <<>>
    /\ UNCHANGED <<living_particles, position_index, index_allocator,
                   particles_a, particles_b, t, iteration, panic,
                   allocVars, kdVars, smVars, trVars, psVars>>

\* the particle the inner loop is at, and what it reads of its neighbours
CurrentIndex == living_particles[loop_j + 1]
CurrentParticle == particles_a[CurrentIndex + 1]

neighbour_indices ==
    get_indices_within(Positions(particles_a), position_index,
                       CurrentParticle.position,
                       FMul(NEIGHBOUR_RADIUS, CurrentParticle.radius))

neighbours == SelectSeq(neighbour_indices, LAMBDA n : n # CurrentIndex)

\* energy > fission_energy, for energy = repulsion_energy(neighbours) and
\* fission_energy = 4.8 * 0.2: 6 * exp(-d^2 / (2r)^2) > 0.96 is
\* d^2 < 4 ln(6.25) r^2 = 7.33 r^2.  No neighbour gives energy 0; each
\* neighbour lies within 3r and adds at least 6 exp(-9/4) = 0.63, so two
\* or more always pass.
EnergyAboveFission ==
    IF Len(neighbours) = 0 THEN FALSE
    ELSE IF Len(neighbours) >= 2 THEN TRUE
    ELSE 100 * Dist2(CurrentParticle.position,
                     At(Positions(particles_a), neighbours[1]))
            < 733 * CurrentParticle.radius * CurrentParticle.radius

\* an equilibrium test that every particle passes
AtEquilibrium_always == TRUE

AtEquilibrium ==
    FLt(CurrentParticle.velocity, FMul(EQUILIBRIUM_SPEED, CurrentParticle.radius))

\* should_die; rand_above stands for rand::random::<f32>() > radius / death_radius
should_die(radius, desired, rand_above) ==
    FLt(FMul(radius, 10), desired * DEATH_COEFFICIENT) /\ rand_above

should_fission_radius(radius, desired) ==
    FLt(desired * MAX_RADIUS_COEFFICIENT, FMul(radius, 10))

should_fission_energy(radius, energy_above, desired) ==
    energy_above /\ FLt(desired, radius)

ShouldFission ==
    \/ should_fission_energy(CurrentParticle.radius, EnergyAboveFission, desired_radius)
    \/ should_fission_radius(CurrentParticle.radius, desired_radius)

InLoop == pc = "loop" /\ panic = "" /\ loop_j >= 0

\* an entry of the history of a sub-step: the index the loop was at, what
\* became of the particle, and the slots of particles_b written for it
Logged(index, what, wrote) == [index |-> index, what |-> what, wrote |-> wrote]

\* the death branch: living_particles.remove(j); index_allocator.remove(i)
ParticleDies ==
    /\ UNCHANGED samplings
    /\ InLoop
    /\ AtEquilibrium
    /\ should_die(CurrentParticle.radius, desired_radius, TRUE)
    /\ living_particles' = VecRemove(living_particles, loop_j)
    /\ index_allocator' = StackBufferAllocator_remove(index_allocator, CurrentIndex).a
    /\ loop_j' = loop_j - 1
    /\ step_log' = Append(step_log, Logged(CurrentIndex, "died", {}))
    /\ UNCHANGED step_start
    /\ UNCHANGED <<position_index, particles_a, particles_b, t, pc, iteration,
                   panic, allocVars, kdVars, smVars, trVars, psVars>>

\* radius / sqrt(2)
new_radius(radius) == IF IsNaN(radius) THEN NaN ELSE (radius * 1000) \div 1414

\* the fission branch.  particles_b[sibling_i] is an indexing of a
\* MAX_PARTICLE_COUNT array: an index the allocator issues past the end
\* stops the program there, after particles_b[i] and the allocator changed.
ParticleFissions ==
    /\ UNCHANGED samplings
    /\ InLoop
    /\ AtEquilibrium
    /\ ShouldFission
    /\ \E new_position, sibling_position \in EngPoints :
        LET i == CurrentIndex
            r == new_radius(CurrentParticle.radius)
            b1 == [particles_b EXCEPT ![i + 1] = Particle(new_position, 0, r)]
            ins == StackBufferAllocator_insert(index_allocator)
            sibling_i == ins.ret
        IN /\ index_allocator' = ins.a
           /\ IF sibling_i < MAX_PARTICLE_COUNT
              THEN /\ particles_b' = [b1 EXCEPT ![sibling_i + 1] =
                                          Particle(sibling_position, 0, r)]
                   /\ living_particles' = Append(living_particles, sibling_i)
                   /\ loop_j' = loop_j - 1
                   /\ step_log' = Append(step_log, Logged(i, "fission", {i, sibling_i}))
                   /\ UNCHANGED <<pc, panic>>
              ELSE /\ particles_b' = b1
                   /\ panic' = "index out of bounds"
                   /\ pc' = "panic"
                   /\ step_log' = Append(step_log, Logged(i, "fission", {i}))
                   /\ UNCHANGED <<living_particles, loop_j>>
    /\ UNCHANGED <<position_index, particles_a, t, iteration, step_start,
                   allocVars, kdVars, smVars, trVars, psVars>>

\* a move that writes its result in place, into the buffer being read
ParticleMoves_front ==
    /\ UNCHANGED samplings
    /\ InLoop
    /\ ~(AtEquilibrium /\ ShouldFission)
    /\ ~PointIsNaN(CurrentParticle.position)
    /\ \E position \in EngPoints, velocity \in EngSpeeds, radius \in EngRadii :
        particles_a' = [particles_a EXCEPT ![CurrentIndex + 1] =
                            Particle(position, velocity, radius)]
    /\ loop_j' = loop_j - 1
    /\ step_log' = Append(step_log, Logged(CurrentIndex, "updated", {}))
    /\ UNCHANGED step_start
    /\ UNCHANGED <<living_particles, position_index, index_allocator,
                   particles_b, t, pc, iteration, panic,
                   allocVars, kdVars, smVars, trVars, psVars>>

\* neither branch taken: the particle moves, particles_b[i] gets the result
ParticleMoves ==
    /\ UNCHANGED samplings
    /\ InLoop
    /\ ~(AtEquilibrium /\ ShouldFission)
    /\ ~PointIsNaN(CurrentParticle.position)
    /\ \E position \in EngPoints, velocity \in EngSpeeds, radius \in EngRadii :
        particles_b' = [particles_b EXCEPT ![CurrentIndex + 1] =
                            Particle(position, velocity, radius)]
    /\ loop_j' = loop_j - 1
    /\ step_log' = Append(step_log, Logged(CurrentIndex, "updated", {CurrentIndex}))
    /\ UNCHANGED step_start
    /\ UNCHANGED <<living_particles, position_index, index_allocator,
                   particles_a, t, pc, iteration, panic,
                   allocVars, kdVars, smVars, trVars, psVars>>

\* particle_radius at a NaN position: dist is NaN for every neighbour, so
\* the sum that divides the radius change is NaN as soon as there is one;
\* with no neighbour the sum is empty and the radius stays a number
NaNRadii ==
    IF Len(neighbours) = 0 /\ ~IsNaN(CurrentParticle.radius) THEN EngRadii ELSE {NaN}

\* The move of a particle for which surface.sample() is NaN (or whose
\* position already is).  Surface::sample takes the minimum over the shapes
\* with partial_cmp(..).unwrap(): with one shape nothing is compared and
\* the NaN comes back, goes through constrain_to_surface into velocity and
\* position, and is written to particles_b[i]; with more shapes the
\* comparison with the NaN is None and unwrap() stops the program.
ParticleMovesNaN ==
    /\ UNCHANGED samplings
    /\ InLoop
    /\ ~(AtEquilibrium /\ ShouldFission)
    /\ \/ /\ \E radius \in NaNRadii :
               particles_b' = [particles_b EXCEPT ![CurrentIndex + 1] =
                                   Particle(<<NaN, NaN, NaN>>, NaN, radius)]
          /\ loop_j' = loop_j - 1
          /\ step_log' = Append(step_log, Logged(CurrentIndex, "updated", {CurrentIndex}))
          /\ UNCHANGED <<pc, panic>>
       \/ /\ panic' = "called Option::unwrap() on a None value"
          /\ pc' = "panic"
          /\ UNCHANGED <<particles_b, loop_j, step_log>>
    /\ UNCHANGED <<living_particles, position_index, index_allocator,
                   particles_a, t, iteration, step_start, allocVars, kdVars, smVars, trVars, psVars>>

\* after the inner loop: mem::swap and position_index.reindex
SubStepEnd ==
    /\ UNCHANGED samplings
    /\ pc = "loop" /\ panic = "" /\ loop_j < 0
    /\ particles_a' = particles_b
    /\ particles_b' = particles_a
    /\ LET built == reindex(Positions(particles_b), living_particles) IN
        IF Overflowed(built)
        THEN panic' = "stack overflow" /\ pc' = "panic"
             /\ UNCHANGED position_index
        ELSE position_index' = built /\ pc' = "substep" /\ UNCHANGED panic
    /\ iteration' = iteration + 1
    /\ step_start' = <<>>
    /\ step_log' = <<>>
    /\ UNCHANGED <<living_particles, index_allocator, t, loop_j,
                   allocVars, kdVars, smVars, trVars, psVars>>

\* self.t += ITERATION_T_STEP, and update() returns
UpdateEnd ==
    /\ UNCHANGED samplings
    /\ pc = "substep" /\ panic = ""
    /\ iteration = UPDATE_ITERATIONS
    /\ t' = t + 1
    /\ pc' = "idle"
    /\ UNCHANGED <<living_particles, position_index, index_allocator,
                   particles_a, particles_b, iteration, loop_j, panic,
                   step_start, step_log,
                   allocVars, kdVars, smVars, trVars, psVars>>

\* SamplingSystem::positions (position and radius of each item)
positions ==
    [k \in 1..Len(living_particles) |->
        [position |-> particles_a[living_particles[k] + 1].position,
         radius |-> particles_a[living_particles[k] + 1].radius]]

Next ==
    \/ UpdateBegin
    \/ SubStepBegin
    \/ ParticleDies
    \/ ParticleFissions
    \/ ParticleMoves
    \/ ParticleMovesNaN
    \/ SubStepEnd
    \/ UpdateEnd

Spec == EngineInit /\ [][Next]_vars

\* the indices the allocator has handed out and not been given back
Allocated(a) == (0..(a.buffer_head - 1)) \ Range(a.returned_indices)

\* C1: whenever update() has returned, the indices of living_particles are
\* exactly the indices the allocator has handed out and not got back.
C1_live_is_allocated ==
    (pc = "idle") => Range(living_particles) = Allocated(index_allocator)

\* an update has returned after a death and a fission inside it: the first
\* slot died and the second particle's sibling took its index
C1_witness ==
    /\ pc = "idle" /\ t >= 1
    /\ living_particles = <<1, 0>>
    /\ Allocated(index_allocator) = {0, 1}

\* C2: living_particles never holds an index twice, and positions() yields
\* as many items as there are live indices.
C2_no_duplicates ==
    /\ NoDup(living_particles)
    /\ Len(positions) = Cardinality(Range(living_particles))

\* positions() is read after a step in which a freed index was issued again
C2_witness ==
    /\ pc = "idle" /\ t = 1
    /\ Len(positions) = 2
    /\ living_particles[1] > living_particles[2]
    /\ index_allocator.returned_indices = <<>>

\* C8: at the head of every sub-step the engine's position_index holds
\* exactly the indices of living_particles, each once.
C8_index_holds_live_set ==
    (pc = "substep" /\ iteration < UPDATE_ITERATIONS) =>
        /\ Range(TreeItems(position_index)) = Range(living_particles)
        /\ Len(TreeItems(position_index)) = Len(living_particles)

\* C10: a seed search that fails does not stop the program: update()
\* returns with t, the live-set and the allocator as they were.
C10_seed_failure_returns ==
    (panic \in SeedPanics) =>
        /\ pc = "idle"
        /\ t = 0
        /\ living_particles = <<>>
        /\ index_allocator = StackBufferAllocator_new

\* C11: a particle that qualifies for fission while every slot of the
\* arena is handed out is passed over: the step leaves living_particles
\* and the allocator as they were and the program goes on.
C11_fission_skipped_when_full ==
    [][(/\ InLoop /\ AtEquilibrium /\ ShouldFission
        /\ Cardinality(Allocated(index_allocator)) = MAX_PARTICLE_COUNT)
       => (/\ living_particles' = living_particles
           /\ index_allocator' = index_allocator
           /\ panic' = "")]_vars

\* C12: the live count never passes MAX_PARTICLE_COUNT and a sampling of
\* more points than that does not stop the program.
C12_population_capped ==
    /\ Len(living_particles) <= MAX_PARTICLE_COUNT
    /\ panic # "TOO DANG BIG!!"

\* C14: while the particles of a sub-step are being processed, neither
\* living_particles nor the allocator changes.
C14_commit_is_deferred ==
    [][(pc = "loop" /\ pc' = "loop")
       => (/\ living_particles' = living_particles
           /\ index_allocator' = index_allocator)]_vars

\* C16: every completed sub-step (swap and reindex done) advances t by one
\* time step.
C16_t_advances_per_substep ==
    [][(pc = "loop" /\ pc' = "substep") => t' = t + 1]_vars

\* no leaf of the tree holds zero indices
RECURSIVE NoEmptyLeaf(_)
NoEmptyLeaf(tree) ==
    IF tree.leaf THEN Len(tree.items) > 0
    ELSE NoEmptyLeaf(tree.left) /\ NoEmptyLeaf(tree.right)

\* C17: the tree reindex builds over a non-empty set of indices has no
\* empty leaf, whatever the positions are.
C17_no_empty_leaf ==
    (kd_built /\ Len(kd_items) > 0) => NoEmptyLeaf(kd_root)

\* C18: what happens to a particle is a function of the engine's state and
\* the surface: no state lets one run remove the particle by death and
\* another run keep it.  (All the engine holds is in the state; it holds no
\* generator, should_die and random_velocity draw from rand::random().)
C18_replay_is_deterministic ==
    ~(ENABLED ParticleDies /\ ENABLED ParticleMoves)

\* C15: a step of the per-particle loop changes neither the front buffer
\* particles_a nor position_index: every result goes to particles_b.
C15_loop_writes_back_buffer_only ==
    [][InLoop => (/\ particles_a' = particles_a
                  /\ position_index' = position_index)]_vars

\* the loop of a sub-step has run over every live particle and the back
\* buffer differs from the front buffer in every live slot
C15_witness ==
    /\ pc = "loop" /\ loop_j < 0
    /\ living_particles # <<>>
    /\ \A k \in 1..Len(living_particles) :
         particles_b[living_particles[k] + 1] # particles_a[living_particles[k] + 1]

\* C19: a particle whose front-buffer speed is at or above
\* EQUILIBRIUM_SPEED * radius neither dies nor fissions: the step leaves
\* living_particles and the allocator as they were.
C19_only_particles_at_rest_die_or_split ==
    [][(/\ InLoop
        /\ FGe(CurrentParticle.velocity, FMul(EQUILIBRIUM_SPEED, CurrentParticle.radius)))
       => (/\ living_particles' = living_particles
           /\ index_allocator' = index_allocator)]_vars

\* two fast particles, one small enough to die and one big enough to split,
\* have both been processed and both are still live in their slots
C19_witness ==
    /\ pc = "loop" /\ loop_j < 0
    /\ living_particles = <<0, 1>>
    /\ index_allocator = [buffer_head |-> 2, returned_indices |-> <<>>]
    /\ \A k \in 1..2 :
         FGe(particles_a[k].velocity, FMul(EQUILIBRIUM_SPEED, particles_a[k].radius))
    /\ particles_a[1].radius * 10 < desired_radius * DEATH_COEFFICIENT
    /\ particles_a[2].radius * 10 > desired_radius * MAX_RADIUS_COEFFICIENT
    /\ particles_b[1] # particles_a[1] /\ particles_b[2] # particles_a[2]

\* C20: once the initial sampling is done, a step changes living_particles
\* in one of two ways only: a death takes the current index out (and the
\* allocator gets it back), or a fission appends one index, newly handed out
\* and different from every live index, the parent staying in its slot.
C20_live_set_changes_by_death_and_fission ==
    [][~(pc = "idle" /\ t = 0 /\ living_particles = <<>>) =>
        \/ /\ living_particles' = living_particles
           /\ (index_allocator' = index_allocator \/ panic' # "")
        \/ /\ InLoop
           /\ Len(living_particles') = Len(living_particles) - 1
           /\ Range(living_particles') = Range(living_particles) \ {CurrentIndex}
           /\ Allocated(index_allocator') = Allocated(index_allocator) \ {CurrentIndex}
        \/ /\ InLoop
           /\ Len(living_particles') = Len(living_particles) + 1
           /\ SubSeq(living_particles', 1, Len(living_particles)) = living_particles
           /\ LET sibling_i == living_particles'[Len(living_particles')] IN
                /\ sibling_i \notin Range(living_particles)
                /\ sibling_i \notin Allocated(index_allocator)
                /\ Allocated(index_allocator') = Allocated(index_allocator) \cup {sibling_i}]_vars

\* a sub-step in which one particle died and another split, the sibling
\* taking the slot the death freed
C20_witness ==
    /\ pc = "loop" /\ loop_j < 0
    /\ Len(living_particles) = 2
    /\ Allocated(index_allocator) = {0, 1}
    /\ particles_a[living_particles[2] + 1].radius * 10 < desired_radius * DEATH_COEFFICIENT
    /\ particles_b[living_particles[2] + 1].radius = new_radius(particles_a[living_particles[1] + 1].radius)
    /\ particles_b[living_particles[2] + 1].velocity = 0

\* C13: a move for which the surface (or any arithmetic of the update) is
\* not a number does not stop the program, and the particle keeps the
\* record it had: what the move writes to particles_b[i] is then the
\* particle's record of particles_a.
C13_nan_freezes_particle ==
    [][InLoop =>
        /\ panic' # "called Option::unwrap() on a None value"
        /\ (/\ living_particles' = living_particles
            /\ index_allocator' = index_allocator
            /\ loop_j' = loop_j - 1
            /\ PointIsNaN(particles_b'[CurrentIndex + 1].position))
           => particles_b'[CurrentIndex + 1] = CurrentParticle]_vars

\* C28: reindex comes to an end for every duplicate-free list of indices,
\* whatever the positions are (KD_LEAF_SIZE or more of them equal
\* included), and the tree it leaves holds every index in exactly one leaf.
C28_reindex_terminates ==
    /\ kd_panic # "stack overflow"
    /\ kd_built =>
          /\ NoDup(TreeItems(kd_root))
          /\ Range(TreeItems(kd_root)) = Range(AllIndices(kd_items))

\* C30: initial_sampling is called only by an update that finds t = 0 and
\* no live particle, so at most once in the life of an engine; once t has
\* advanced, a live list that has become empty stays empty.
C30_initial_sampling_runs_once ==
    /\ [](samplings <= 1)
    /\ [][/\ samplings' # samplings => (t = 0 /\ living_particles = <<>>)
          /\ (t > 0 /\ living_particles = <<>>) => living_particles' = <<>>]_vars

\* C30 witness: the engine was sampled once, every particle has died, t has
\* advanced, and a later update is running its loop over the empty list
C30_witness ==
    /\ samplings = 1 /\ t > 0 /\ panic = ""
    /\ living_particles = <<>>
    /\ pc = "loop" /\ iteration > 0

WrittenThisStep(i) ==
    \E k \in 1..Len(step_log) :
        /\ i \in step_log[k].wrote
        /\ \A m \in (k + 1)..Len(step_log) :
              ~(step_log[m].what = "died" /\ step_log[m].index = i)

\* C27: when the buffers are swapped, the record that becomes
\* particles_a[i] of every live index i is one the sub-step just completed
\* wrote (as an update or as a half of a fission), not a record of an
\* earlier sub-step or of a particle that died in slot i.
C27_front_records_are_fresh ==
    [][(pc = "loop" /\ loop_j < 0 /\ pc' = "substep") =>
          \A i \in Range(living_particles') :
              /\ WrittenThisStep(i)
              /\ particles_a'[i + 1] = particles_b[i + 1]]_vars

\* C27 witness: after an earlier sub-step, a particle died and the slot it
\* left was given to the sibling of a fission in the same sub-step
C27_witness ==
    /\ pc = "loop" /\ panic = "" /\ loop_j = -1 /\ iteration > 0
    /\ \E a, b \in 1..Len(step_log) :
        /\ a < b
        /\ step_log[a].what = "died"
        /\ step_log[b].what = "fission"
        /\ step_log[a].index \in step_log[b].wrote
    /\ \A i \in Range(living_particles) : WrittenThisStep(i)

(***************************************************************************)
(* Scene-graph transforms: NodeTransform                                   *)
(* (src/creature-creator-renderer/src/transform.rs) and Transform          *)
(* (src/src/renderer/graph.rs), a nalgebra Similarity3.  Coordinates and   *)
(* scale factors are integers; angles are in degrees, a rotation vector    *)
(* turns about one coordinate axis by 0, 90 or 180 degrees, whose sine and *)
(* cosine are taken as exact.                                              *)
(***************************************************************************)
\* largest coordinate of a position
TrMaxCoord == 1
\* largest scale factor
TrMaxScale == 2

TrPoints == {<<x, y, z>> : x \in (-TrMaxCoord)..TrMaxCoord,
                           y \in (-TrMaxCoord)..TrMaxCoord,
                           z \in (-TrMaxCoord)..TrMaxCoord}
TrAngles == {90, 180}
TrRotations == {<<0, 0, 0>>}
                 \cup {<<a, 0, 0>> : a \in TrAngles}
                 \cup {<<0, a, 0>> : a \in TrAngles}
                 \cup {<<0, 0, a>> : a \in TrAngles}
TrScales == {<<x, y, z>> : x \in 1..TrMaxScale, y \in 1..TrMaxScale, z \in 1..TrMaxScale}

Cos(deg) == CASE deg = 0 -> 1 [] deg = 90 -> 0 [] deg = 180 -> -1
Sin(deg) == CASE deg = 0 -> 0 [] deg = 90 -> 1 [] deg = 180 -> 0

\* the 3x3 matrix of the rotation with this scaled axis (in degrees)
RotationMatrix(v) ==
    IF v[1] # 0
    THEN << <<1, 0, 0>>, <<0, Cos(v[1]), -Sin(v[1])>>, <<0, Sin(v[1]), Cos(v[1])>> >>
    ELSE IF v[2] # 0
    THEN << <<Cos(v[2]), 0, Sin(v[2])>>, <<0, 1, 0>>, <<-Sin(v[2]), 0, Cos(v[2])>> >>
    ELSE << <<Cos(v[3]), -Sin(v[3]), 0>>, <<Sin(v[3]), Cos(v[3]), 0>>, <<0, 0, 1>> >>

\* product of two 4x4 matrices, every term computed
MatMul(a, b) ==
    [i \in 1..4 |-> [j \in 1..4 |->
        a[i][1] * b[1][j] + a[i][2] * b[2][j] + a[i][3] * b[3][j] + a[i][4] * b[4][j]]]

Translation3_to_homogeneous(p) ==
    << <<1, 0, 0, p[1]>>, <<0, 1, 0, p[2]>>, <<0, 0, 1, p[3]>>, <<0, 0, 0, 1>> >>

Rotation3_to_homogeneous(v) ==
    LET r == RotationMatrix(v) IN
    << r[1] \o <<0>>, r[2] \o <<0>>, r[3] \o <<0>>, <<0, 0, 0, 1>> >>

Scale3_to_homogeneous(sc) ==
    << <<sc[1], 0, 0, 0>>, <<0, sc[2], 0, 0>>, <<0, 0, sc[3], 0>>, <<0, 0, 0, 1>> >>

\* Matrix4::transform_point: the point is divided by the normalizer row's
\* value when that is not zero (it is 1 for every matrix built here)
Matrix4_transform_point(m, pt) ==
    LET n == m[4][1] * pt[1] + m[4][2] * pt[2] + m[4][3] * pt[3] + m[4][4]
        moved == [i \in 1..3 |->
                    m[i][1] * pt[1] + m[i][2] * pt[2] + m[i][3] * pt[3] + m[i][4]]
    IN  IF n # 0 THEN [i \in 1..3 |-> moved[i] \div n] ELSE moved

NodeTransform_identity ==
    [kind |-> "NodeTransform", position |-> <<0, 0, 0>>,
     rotation |-> <<0, 0, 0>>, scale |-> <<1, 1, 1>>]

\* mutant: scale * rotation * translation
NodeTransform_to_homogeneous_srt(self) ==
    MatMul(MatMul(Scale3_to_homogeneous(self.scale),
                  Rotation3_to_homogeneous(self.rotation)),
           Translation3_to_homogeneous(self.position))

\* translation * rotation * scale
NodeTransform_to_homogeneous(self) ==
    MatMul(MatMul(Translation3_to_homogeneous(self.position),
                  Rotation3_to_homogeneous(self.rotation)),
           Scale3_to_homogeneous(self.scale))

\* Transform(Similarity3): isometry.translation, isometry.rotation, scaling
Transform_identity ==
    [kind |-> "Transform", translation |-> <<0, 0, 0>>,
     rotation |-> <<0, 0, 0>>, scaling |-> 1]

\* Similarity3::transform_point: rotation * (point * scaling) + translation
Transform_apply_point(self, pt) ==
    LET r == RotationMatrix(self.rotation)
        scaled == [i \in 1..3 |-> pt[i] * self.scaling]
    IN  [i \in 1..3 |->
            r[i][1] * scaled[1] + r[i][2] * scaled[2] + r[i][3] * scaled[3]
                + self.translation[i]]

Transform_position(self) == self.translation

Transform_set_position(self, new_position) ==
    [self EXCEPT !.translation = new_position]

Transform_set_rotation(self, rotation) == [self EXCEPT !.rotation = rotation]

\* reading the position of either kind of transform
PositionOf(tr) ==
    IF tr.kind = "NodeTransform" THEN tr.position ELSE Transform_position(tr)

\* the position written to either kind of transform
WithPosition(tr, p) ==
    IF tr.kind = "NodeTransform" THEN [tr EXCEPT !.position = p]
    ELSE Transform_set_position(tr, p)

\* the transform applied to a point, through the homogeneous matrix for a
\* NodeTransform
ApplyTo(tr, pt) ==
    IF tr.kind = "NodeTransform"
    THEN Matrix4_transform_point(NodeTransform_to_homogeneous(tr), pt)
    ELSE Transform_apply_point(tr, pt)

TransformInit ==
    /\ transform \in {NodeTransform_identity, Transform_identity}
    /\ AllocParked /\ KdParked /\ SampleParked /\ EngineParked /\ StorageParked

TrSetPosition ==
    /\ \E p \in TrPoints : transform' = WithPosition(transform, p)
    /\ UNCHANGED <<allocVars, kdVars, smVars, engVars, psVars>>

TrSetRotation ==
    /\ \E r \in TrRotations :
        transform' = IF transform.kind = "NodeTransform"
                     THEN [transform EXCEPT !.rotation = r]
                     ELSE Transform_set_rotation(transform, r)
    /\ UNCHANGED <<allocVars, kdVars, smVars, engVars, psVars>>

\* NodeTransform.scale is a public field; Similarity3::set_scaling is
\* reached through DerefMut
TrSetScale ==
    /\ \E sc \in TrScales :
        transform' = IF transform.kind = "NodeTransform"
                     THEN [transform EXCEPT !.scale = sc]
                     ELSE [transform EXCEPT !.scaling = sc[1]]
    /\ UNCHANGED <<allocVars, kdVars, smVars, engVars, psVars>>

TransformNext == TrSetPosition \/ TrSetRotation \/ TrSetScale

SpecTransform == TransformInit /\ [][TransformNext]_vars

\* C23: a fresh identity transform has position (0,0,0) and maps the origin
\* to itself; once the position is set to p, reading the position gives p
\* and the transform (the homogeneous matrix of a NodeTransform) maps the
\* origin to p, whatever rotation and scale the transform has.
C23_position_round_trip ==
    /\ [](transform \in {NodeTransform_identity, Transform_identity} =>
            /\ PositionOf(transform) = <<0, 0, 0>>
            /\ ApplyTo(transform, <<0, 0, 0>>) = <<0, 0, 0>>)
    /\ [][\A p \in TrPoints :
            transform' = WithPosition(transform, p) =>
                /\ PositionOf(transform') = p
                /\ ApplyTo(transform', <<0, 0, 0>>) = p]_vars

\* C23 witness: a NodeTransform that only had its position set, away from
\* the origin, and maps the origin there
C23_witness ==
    /\ transform = [NodeTransform_identity EXCEPT !.position = <<1, 0, -1>>]
    /\ ApplyTo(transform, <<0, 0, 0>>) = <<1, 0, -1>>

(***************************************************************************)
(* ParticleStorage (src/src/particle_system.rs): the double-buffered       *)
(* particle store of the first relaxation engine, over a                   *)
(* StackPoolAllocator<MAX_PARTICLES> and a KdIndexer.  What becomes of a   *)
(* particle is decided by the closure f the caller passes: any of Kill,    *)
(* Live and Fission, with any particles.                                   *)
(***************************************************************************)
\* positions of the model: 2 * x on the x axis, x up to PsMaxCoord
PsMaxCoord == 1
\* the radius of every particle
PsRadius == 1
\* Parameters::default().neighbour_radius
neighbour_radius == 3
\* the pools have as many slots as the allocator has indices
MAX_PARTICLES == SIZE

PsPoints == {<<2 * x, 0, 0>> : x \in 0..PsMaxCoord}
PsSamples ==
    {smp \in UNION {SeqsOfLen(PsPoints, n) : n \in 2..3} : NoDup(smp)}

RECURSIVE init_with_samples_loop(_, _, _)
init_with_samples_loop(samples, k, st) ==
    IF k > Len(samples) THEN st
    ELSE LET ins == StackPoolAllocator_insert(st.pa) IN
         init_with_samples_loop(samples, k + 1,
             [pa |-> ins.a,
              pool_a |-> [st.pool_a EXCEPT ![ins.ret + 1].position = samples[k]],
              active_particles |-> Append(st.active_particles, ins.ret)])

init_with_samples(samples, radius) ==
    init_with_samples_loop(samples, 1,
        [pa |-> StackPoolAllocator_new,
         pool_a |-> [k \in 1..MAX_PARTICLES |-> Particle(<<0, 0, 0>>, 0, radius)],
         active_particles |-> <<>>])

StorageInit ==
    /\ \E samples \in PsSamples :
        LET st == init_with_samples(samples, PsRadius)
            built == reindex(Positions(st.pool_a), st.active_particles)
        IN /\ ~Overflowed(built)
           /\ ps_index_allocator = st.pa
           /\ ps_spatial_indexer = built
           /\ ps_active_particles = st.active_particles
           /\ ps_pool_a = st.pool_a
           /\ ps_pool_b = st.pool_a
    /\ ps_active_pool = TRUE
    /\ ps_particles_killed = <<>> /\ ps_count = 0 /\ ps_j = 0
    /\ ps_pc = "idle" /\ ps_panic = ""
    /\ AllocParked /\ KdParked /\ SampleParked /\ EngineParked /\ TransformParked

active_set == IF ps_active_pool THEN ps_pool_a ELSE ps_pool_b
inactive_set == IF ps_active_pool THEN ps_pool_b ELSE ps_pool_a

\* the head of update_particles
PsUpdateBegin ==
    /\ ps_pc = "idle" /\ ps_panic = ""
    /\ ps_particles_killed' = <<>>
    /\ ps_count' = Len(ps_active_particles)
    /\ ps_j' = 0
    /\ ps_pc' = "loop"
    /\ UNCHANGED <<ps_index_allocator, ps_spatial_indexer, ps_active_particles,
                   ps_pool_a, ps_pool_b, ps_active_pool, ps_panic,
                   allocVars, kdVars, smVars, engVars, trVars>>

PsInLoop == ps_pc = "loop" /\ ps_panic = "" /\ ps_j < ps_count

\* let i = self.active_particles[j]; let particle = self.inactive_set()[i]
PsCurrentIndex == ps_active_particles[ps_j + 1]
PsCurrentParticle == inactive_set[PsCurrentIndex + 1]

\* the indices whose particles are handed to f as neighbours
PsNeighbourIndices ==
    SelectSeq(get_indices_within(Positions(inactive_set), ps_spatial_indexer,
                                 PsCurrentParticle.position,
                                 FMul(PsCurrentParticle.radius, neighbour_radius)),
              LAMBDA k : k # ps_j)

\* f returned ParticleUpdate::Kill
PsKill ==
    /\ PsInLoop
    /\ ps_particles_killed' = Append(ps_particles_killed, ps_j)
    /\ ps_j' = ps_j + 1
    /\ UNCHANGED <<ps_index_allocator, ps_spatial_indexer, ps_active_particles,
                   ps_pool_a, ps_pool_b, ps_active_pool, ps_count, ps_pc, ps_panic,
                   allocVars, kdVars, smVars, engVars, trVars>>

\* f returned ParticleUpdate::Live(p)
PsLive ==
    /\ PsInLoop
    /\ \E position \in PsPoints :
        LET written == [active_set EXCEPT ![PsCurrentIndex + 1] =
                            Particle(position, 0, PsRadius)]
        IN /\ ps_pool_a' = IF ps_active_pool THEN written ELSE ps_pool_a
           /\ ps_pool_b' = IF ps_active_pool THEN ps_pool_b ELSE written
    /\ ps_j' = ps_j + 1
    /\ UNCHANGED <<ps_index_allocator, ps_spatial_indexer, ps_active_particles,
                   ps_active_pool, ps_particles_killed, ps_count, ps_pc, ps_panic,
                   allocVars, kdVars, smVars, engVars, trVars>>

\* f returned ParticleUpdate::Fission(p1, p2)
PsFission ==
    /\ PsInLoop
    /\ LET ins == StackPoolAllocator_insert(ps_index_allocator)
           sibling_i == ins.ret
       IN IF ins.panic # ""
          THEN /\ ps_panic' = ins.panic
               /\ UNCHANGED <<ps_index_allocator, ps_active_particles, ps_pool_a,
                              ps_pool_b, ps_j>>
          ELSE \E position1, position2 \in PsPoints :
               LET p1 == Particle(position1, 0, PsRadius)
                   p2 == Particle(position2, 0, PsRadius)
                   active == [active_set EXCEPT ![PsCurrentIndex + 1] = p1,
                                                ![sibling_i + 1] = p2]
                   inactive == [inactive_set EXCEPT ![sibling_i + 1] = p2]
               IN /\ ps_index_allocator' = ins.a
                  /\ ps_active_particles' = Append(ps_active_particles, sibling_i)
                  /\ ps_pool_a' = IF ps_active_pool THEN active ELSE inactive
                  /\ ps_pool_b' = IF ps_active_pool THEN inactive ELSE active
                  /\ ps_j' = ps_j + 1
                  /\ UNCHANGED ps_panic
    /\ UNCHANGED <<ps_spatial_indexer, ps_active_pool, ps_particles_killed,
                   ps_count, ps_pc, allocVars, kdVars, smVars, engVars, trVars>>

\* for j in particles_killed.iter().rev(): the allocator takes the index
\* back and the list loses position j
RECURSIVE remove_killed(_, _, _)
remove_killed(killed, pa, active) ==
    IF Len(killed) = 0 THEN [pa |-> pa, active_particles |-> active]
    ELSE LET j == killed[Len(killed)] IN
         remove_killed(VecPopped(killed),
                       StackPoolAllocator_remove(pa, active[j + 1]).a,
                       VecRemove(active, j))

\* after the loop: the kills, toggle_set and reindex
PsUpdateEnd ==
    /\ ps_pc = "loop" /\ ps_panic = "" /\ ps_j = ps_count
    /\ IF Len(ps_particles_killed) > ps_count \div 2
       THEN /\ ps_panic' = "Half all particles killed?"
            /\ UNCHANGED <<ps_index_allocator, ps_spatial_indexer,
                           ps_active_particles, ps_active_pool>>
       ELSE LET rk == remove_killed(ps_particles_killed, ps_index_allocator,
                                    ps_active_particles)
                built == reindex(Positions(active_set), rk.active_particles)
            IN /\ ps_index_allocator' = rk.pa
               /\ ps_active_particles' = rk.active_particles
               /\ ps_active_pool' = ~ps_active_pool
               /\ IF Overflowed(built)
                  THEN ps_panic' = "stack overflow" /\ UNCHANGED ps_spatial_indexer
                  ELSE ps_spatial_indexer' = built /\ UNCHANGED ps_panic
    /\ ps_pc' = "idle"
    /\ UNCHANGED <<ps_pool_a, ps_pool_b, ps_particles_killed, ps_count, ps_j,
                   allocVars, kdVars, smVars, engVars, trVars>>

StorageNext == PsUpdateBegin \/ PsKill \/ PsLive \/ PsFission \/ PsUpdateEnd

SpecStorage == StorageInit /\ [][StorageNext]_vars

\* C25: the neighbours gathered for the particle in slot i never hold i
\* and hold every other indexed particle within the search radius, also
\* once kills and fissions have made slots differ from list positions
\* (stated here for ParticleStorage::update_particles).
C25_neighbours_exclude_self ==
    PsInLoop =>
        LET i == PsCurrentIndex
            list == Range(PsNeighbourIndices)
        IN /\ i \notin list
           /\ \A k \in Range(TreeItems(ps_spatial_indexer)) \ {i} :
                 WithinRadius(inactive_set[k + 1].position,
                              PsCurrentParticle.position,
                              FMul(PsCurrentParticle.radius, neighbour_radius))
                     => k \in list

=============================================================================
